---------------------------- MODULE Spec2Model ----------------------------
(***************************************************************************)
(* RDF graph isomorphism by hash-based grounding                            *)
(* (src/src/isomorphism/graph_isomorphism.rs).                              *)
(*                                                                          *)
(* Rust Strings are TLA+ strings; TLC evaluates \o, Len and SubSeq on them. *)
(* A HashMap<String, V> is a function whose DOMAIN is its key set, a        *)
(* HashSet / HashMap<String, bool> index is a set of keys, an Option is     *)
(* <<>> (None) or <<v>> (Some(v)).                                          *)
(*                                                                          *)
(* The external murmur3 crate is idealised: a successful hash is collision  *)
(* free, a u64 hash value is represented by the text that was hashed        *)
(* between braces, characters that occur in no input payload (as decimal    *)
(* digits never form a delimiter of the signature layout).  Whether the     *)
(* crate reports a failure is the variable hash_fails.                      *)
(*                                                                          *)
(* Every std HashMap has an iteration order of its own: ord.a is the order  *)
(* of the maps of side A, ord.b that of the maps of side B.  The variable   *)
(* frame holds the tree of the frames of get_bijection_inner that the call  *)
(* went through, outcome how the call ended.                                *)
(*                                                                          *)
(* The second part models QueryIsomorphism::is_isomorphic                   *)
(* (src/src/isomorphism/core.rs) on two query texts, query_one and          *)
(* query_two, with the parsers of src/src/parsing; answer is its Result.    *)
(* A query text is held line by line, each line split into the tokens that  *)
(* the parsers' regular expressions capture.                                *)
(***************************************************************************)
EXTENDS Integers, Sequences, FiniteSets, TLC

VARIABLES g1, g2, ord, hash_fails, pc, result, outcome, frame,
          query_one, query_two, answer

vars == <<g1, g2, ord, hash_fails, pc, result, outcome, frame, query_one, query_two, answer>>

(***************************************************************************)
(* Strings: byte order of the characters that occur, as Rust's Ord for str. *)
(***************************************************************************)
Alphabet == " \"0123456789:<>@_abcdefghijklmnopqrstuvwxyz{|}"

CharAt(s, i) == SubSeq(s, i, i)

CharOrd == [c \in {CharAt(Alphabet, i) : i \in 1..Len(Alphabet)} |->
              CHOOSE i \in 1..Len(Alphabet) : CharAt(Alphabet, i) = c]

\* The length of the longest common prefix of a and b, between lo (a common
\* prefix length) and hi, by bisection.
RECURSIVE CommonPrefixLen(_, _, _, _)
CommonPrefixLen(a, b, lo, hi) ==
  IF lo >= hi THEN lo
  ELSE LET mid == (lo + hi + 1) \div 2
       IN IF SubSeq(a, 1, mid) = SubSeq(b, 1, mid)
          THEN CommonPrefixLen(a, b, mid, hi)
          ELSE CommonPrefixLen(a, b, lo, mid - 1)

\* a < b: at the first position where they differ, or a is a proper prefix of b.
StrLess(a, b) ==
  LET n == CommonPrefixLen(a, b, 0, IF Len(a) < Len(b) THEN Len(a) ELSE Len(b))
  IN IF n = Len(a) THEN n < Len(b)
     ELSE IF n = Len(b) THEN FALSE
     ELSE CharOrd[CharAt(a, n + 1)] < CharOrd[CharAt(b, n + 1)]

starts_with(s, prefix) ==
  Len(s) >= Len(prefix) /\ SubSeq(s, 1, Len(prefix)) = prefix

RECURSIVE InsertSorted(_, _)
InsertSorted(sorted, s) ==
  IF sorted = <<>> THEN <<s>>
  ELSE IF StrLess(s, Head(sorted)) THEN <<s>> \o sorted
  ELSE <<Head(sorted)>> \o InsertSorted(Tail(sorted), s)

RECURSIVE SortStrings(_)
SortStrings(seq) ==
  IF seq = <<>> THEN <<>>
  ELSE InsertSorted(SortStrings(Tail(seq)), Head(seq))

RECURSIVE SortedSeqOfSet(_)
SortedSeqOfSet(S) ==
  IF S = {} THEN <<>>
  ELSE LET m == CHOOSE x \in S : \A y \in S : x = y \/ StrLess(x, y)
       IN <<m>> \o SortedSeqOfSet(S \ {m})

Reverse(seq) == [i \in 1..Len(seq) |-> seq[Len(seq) + 1 - i]]

\* The order in which a std HashMap / HashSet yields its keys is unspecified.
IterationOrder(S, o) ==
  LET sorted == SortedSeqOfSet(S)
  IN CASE o = "ascending" -> sorted
       [] o = "descending" -> Reverse(sorted)
       [] o = "rotated" -> IF sorted = <<>> THEN sorted
                           ELSE Tail(sorted) \o <<Head(sorted)>>

RECURSIVE JoinStrings(_)
JoinStrings(seq) ==
  IF seq = <<>> THEN "" ELSE Head(seq) \o JoinStrings(Tail(seq))

Digits == <<"0", "1", "2", "3", "4", "5", "6", "7", "8", "9">>

RECURSIVE to_string(_)
to_string(n) ==
  IF n < 10 THEN Digits[n + 1]
  ELSE to_string(n \div 10) \o Digits[(n % 10) + 1]

\* str::split('|')
RECURSIVE SplitFrom(_, _, _)
SplitFrom(s, i, cur) ==
  IF i > Len(s) THEN <<cur>>
  ELSE IF CharAt(s, i) = "|" THEN <<cur>> \o SplitFrom(s, i + 1, "")
  ELSE SplitFrom(s, i + 1, cur \o CharAt(s, i))

split(s) == SplitFrom(s, 1, "")

Range(f) == {f[x] : x \in DOMAIN f}

Insert(map, k, v) == (k :> v) @@ map

EmptyMap == <<>>

(***************************************************************************)
(* Term model (core.rs) and normalizer.                                     *)
(***************************************************************************)
IRI(s) == [kind |-> "IRI", v |-> s]
Variable(s) == [kind |-> "Variable", v |-> s]
Literal(s) == [kind |-> "Literal", v |-> s]
BlankNode(s) == [kind |-> "BlankNode", v |-> s]

Triple(s, p, o) == [subject |-> s, predicate |-> p, object |-> o]

NormalizedTriple(s, p, o) == [subject |-> s, predicate |-> p, object |-> o]

\* A plausible slip: a Variable keeps its name instead of being renumbered.
normalize_node_keeping_names(node, var_map, counter) ==
  [out |-> CASE node.kind = "IRI" -> "<" \o node.v \o ">"
             [] node.kind = "Literal" -> "\"" \o node.v \o "\""
             [] OTHER -> "_:" \o node.v,
   var_map |-> var_map, counter |-> counter]

\* Returns the normalized string with the updated (var_map, counter).
normalize_node(node, var_map, counter) ==
  CASE node.kind = "IRI" ->
         [out |-> "<" \o node.v \o ">", var_map |-> var_map, counter |-> counter]
    [] node.kind = "Variable" ->
         IF node.v \notin DOMAIN var_map
         THEN [out |-> "_:b" \o to_string(counter),
               var_map |-> Insert(var_map, node.v, "_:b" \o to_string(counter)),
               counter |-> counter + 1]
         ELSE [out |-> var_map[node.v], var_map |-> var_map, counter |-> counter]
    [] node.kind = "Literal" ->
         [out |-> "\"" \o node.v \o "\"", var_map |-> var_map, counter |-> counter]
    [] node.kind = "BlankNode" ->
         [out |-> "_:" \o node.v, var_map |-> var_map, counter |-> counter]

RECURSIVE NormalizeFrom(_, _, _, _)
NormalizeFrom(bgp, i, var_map, counter) ==
  IF i > Len(bgp) THEN <<>>
  ELSE LET s == normalize_node(bgp[i].subject, var_map, counter)
           p == normalize_node(bgp[i].predicate, s.var_map, s.counter)
           o == normalize_node(bgp[i].object, p.var_map, p.counter)
       IN <<NormalizedTriple(s.out, p.out, o.out)>>
            \o NormalizeFrom(bgp, i + 1, o.var_map, o.counter)

normalize_bgp(bgp) == NormalizeFrom(bgp, 1, EmptyMap, 0)


(***************************************************************************)
(* Ground split (helpers at the end of impl GraphIsomorphism).              *)
(***************************************************************************)
has_blank(quad) ==
  \/ starts_with(quad.subject, "_:")
  \/ starts_with(quad.predicate, "_:")
  \/ starts_with(quad.object, "_:")

get_quads_with_blank_nodes(graph) == SelectSeq(graph, LAMBDA quad : has_blank(quad))

get_quads_without_blank_nodes(graph) == SelectSeq(graph, LAMBDA quad : ~has_blank(quad))

\* A plausible slip: the key is built with another separator than the one that
\* uniq_graph splits on.
quad_key_with_spaces(quad) == quad.subject \o " " \o quad.predicate \o " " \o quad.object

quad_key(quad) == quad.subject \o "|" \o quad.predicate \o "|" \o quad.object

\* HashMap<String, bool> whose values are all true: its key set.
index_graph(graph) == {quad_key(graph[i]) : i \in 1..Len(graph)}

key_to_quad(key) ==
  LET parts == split(key)
  IN NormalizedTriple(parts[1], parts[2], parts[3])

\* parts[1] or parts[2] of the source is out of bounds: the thread panics.
uniq_graph_panics(graph) == \E key \in index_graph(graph) : Len(split(key)) < 3

uniq_graph(graph, o) ==
  LET keys == IterationOrder(index_graph(graph), o)
  IN [i \in 1..Len(keys) |-> key_to_quad(keys[i])]

quad_blanks(quad) ==
  {t \in {quad.subject, quad.predicate, quad.object} : starts_with(t, "_:")}

get_graph_blank_nodes(graph) ==
  SortedSeqOfSet(UNION {quad_blanks(graph[i]) : i \in 1..Len(graph)})

(***************************************************************************)
(* Signature hasher.                                                        *)
(***************************************************************************)
\* murmur3_x64_128 (external crate), an io::Result: <<>> is Err, <<h>> is Ok(h).
\* A successful hash is idealised as collision free: the hash value of data is
\* the token {data}, which also stands for its decimal rendering.
murmur3_x64_128(data) == IF hash_fails THEN <<>> ELSE <<"{" \o data \o "}">>

\* unwrap_or(0): a failure of the hash becomes the hash value 0.
hash_string(data) ==
  LET hash128 == murmur3_x64_128(data)
  IN IF hash128 = <<>> THEN "0" ELSE hash128[1]

is_term_grounded(term, hashes) ==
  ~starts_with(term, "_:") \/ term \in DOMAIN hashes

term_to_signature(term, hashes, target) ==
  IF term = target THEN "@self"
  ELSE IF starts_with(term, "_:")
       THEN IF term \in DOMAIN hashes THEN hashes[term] ELSE "@blank"
       ELSE term

quad_to_signature(quad, hashes, term) ==
  term_to_signature(quad.subject, hashes, term) \o "|"
    \o term_to_signature(quad.predicate, hashes, term) \o "|"
    \o term_to_signature(quad.object, hashes, term)

quad_contains(quad, term) ==
  quad.subject = term \/ quad.predicate = term \/ quad.object = term

\* A plausible slip: the signatures are joined in the order of the quads.
hash_term_unsorted(term, quads, hashes) ==
  LET incident == SelectSeq(quads, LAMBDA quad : quad_contains(quad, term))
      quad_signatures ==
        [i \in 1..Len(incident) |-> quad_to_signature(incident[i], hashes, term)]
      grounded ==
        \A i \in 1..Len(incident) :
          \A t \in {incident[i].subject, incident[i].predicate, incident[i].object} :
            is_term_grounded(t, hashes) \/ t = term
  IN [grounded |-> grounded, hash |-> hash_string(JoinStrings(quad_signatures))]

\* (grounded, hash) as a record.
hash_term(term, quads, hashes) ==
  LET incident == SelectSeq(quads, LAMBDA quad : quad_contains(quad, term))
      quad_signatures ==
        [i \in 1..Len(incident) |-> quad_to_signature(incident[i], hashes, term)]
      grounded ==
        \A i \in 1..Len(incident) :
          \A t \in {incident[i].subject, incident[i].predicate, incident[i].object} :
            is_term_grounded(t, hashes) \/ t = term
  IN [grounded |-> grounded,
      hash |-> hash_string(JoinStrings(SortStrings(quad_signatures)))]

(***************************************************************************)
(* Refinement loop.                                                         *)
(***************************************************************************)
\* The for loop over terms of one pass: st = [hashes, ungrounded_hashes].
\* A plausible slip: a term that is already grounded is hashed again.
RECURSIVE HashPassRehashing(_, _, _, _)
HashPassRehashing(quads, terms, i, st) ==
  IF i > Len(terms) THEN st
  ELSE LET term == terms[i]
           Put(r) ==
             [hashes |-> IF r.grounded THEN Insert(st.hashes, term, r.hash)
                         ELSE st.hashes,
              ungrounded_hashes |-> Insert(st.ungrounded_hashes, term, r.hash),
              by_hash_term |-> IF r.grounded THEN st.by_hash_term \cup {term}
                               ELSE st.by_hash_term]
       IN HashPassRehashing(quads, terms, i + 1, Put(hash_term(term, quads, st.hashes)))

\* The for loop over terms of one pass.  by_hash_term is the set of the terms
\* that were inserted because hash_term reported them grounded.
RECURSIVE HashPass(_, _, _, _)
HashPass(quads, terms, i, st) ==
  IF i > Len(terms) THEN st
  ELSE LET term == terms[i]
       IN IF term \in DOMAIN st.hashes
          THEN HashPass(quads, terms, i + 1, st)
          ELSE LET Put(r) ==
                     [hashes |-> IF r.grounded THEN Insert(st.hashes, term, r.hash)
                                 ELSE st.hashes,
                      ungrounded_hashes |-> Insert(st.ungrounded_hashes, term, r.hash),
                      by_hash_term |-> IF r.grounded THEN st.by_hash_term \cup {term}
                                       ELSE st.by_hash_term]
               IN HashPass(quads, terms, i + 1, Put(hash_term(term, quads, st.hashes)))

\* A plausible slip: a hash that a second term carries keeps its first term.
RECURSIVE HashToTermKeepingFirst(_, _, _, _)
HashToTermKeepingFirst(ungrounded_hashes, keys, i, hash_to_term) ==
  IF i > Len(keys) THEN hash_to_term
  ELSE LET term == keys[i]
           hash == ungrounded_hashes[term]
       IN HashToTermKeepingFirst(ungrounded_hashes, keys, i + 1,
            IF hash \in DOMAIN hash_to_term THEN hash_to_term
            ELSE Insert(hash_to_term, hash, <<term>>))

\* hash_to_term: hash -> Option<term>, built in the map's iteration order.
RECURSIVE HashToTerm(_, _, _, _)
HashToTerm(ungrounded_hashes, keys, i, hash_to_term) ==
  IF i > Len(keys) THEN hash_to_term
  ELSE LET term == keys[i]
           hash == ungrounded_hashes[term]
       IN HashToTerm(ungrounded_hashes, keys, i + 1,
            IF hash \in DOMAIN hash_to_term
            THEN IF hash_to_term[hash] # <<>>
                 THEN Insert(hash_to_term, hash, <<>>)
                 ELSE hash_to_term
            ELSE Insert(hash_to_term, hash, <<term>>))

\* A plausible slip: the promotion files the entry under the hash as well.
RECURSIVE PromoteUniqueByHash(_, _, _, _)
PromoteUniqueByHash(hashes, hash_to_term, entries, i) ==
  IF i > Len(entries) THEN hashes
  ELSE LET hash == entries[i]
           term_opt == hash_to_term[hash]
       IN PromoteUniqueByHash(
            IF term_opt # <<>>
            THEN Insert(Insert(hashes, term_opt[1], hash), hash, hash)
            ELSE hashes,
            hash_to_term, entries, i + 1)

RECURSIVE PromoteUnique(_, _, _, _)
PromoteUnique(hashes, hash_to_term, entries, i) ==
  IF i > Len(entries) THEN hashes
  ELSE LET hash == entries[i]
           term_opt == hash_to_term[hash]
       IN PromoteUnique(
            IF term_opt # <<>> THEN Insert(hashes, term_opt[1], hash) ELSE hashes,
            hash_to_term, entries, i + 1)

\* One iteration of the while loop and, if the grounded map grew, the next ones.
\* passes counts the iterations; history lists the grounded map after the for
\* loop and after the promotion of every iteration.
RECURSIVE HashLoop(_, _, _, _, _, _)
HashLoop(quads, terms, hashes, ungrounded_hashes, by_hash_term, o) ==
  LET initial_grounded_count == Cardinality(DOMAIN hashes)
      Again(promoted, st) ==
        IF initial_grounded_count # Cardinality(DOMAIN promoted)
        THEN LET Counted(rest) ==
                   [rest EXCEPT !.passes = @ + 1,
                                !.history = <<st.hashes, promoted>> \o @]
             IN Counted(HashLoop(quads, terms, promoted, st.ungrounded_hashes,
                                 st.by_hash_term, o))
        ELSE [hashes |-> promoted, ungrounded_hashes |-> st.ungrounded_hashes,
              passes |-> 1, history |-> <<st.hashes, promoted>>,
              by_hash_term |-> st.by_hash_term]
      Promote(st, hash_to_term) ==
        Again(PromoteUnique(st.hashes, hash_to_term,
                            IterationOrder(DOMAIN hash_to_term, o), 1),
              st)
      Unique(st) ==
        Promote(st, HashToTerm(st.ungrounded_hashes,
                               IterationOrder(DOMAIN st.ungrounded_hashes, o),
                               1, EmptyMap))
  IN Unique(HashPass(quads, terms, 1,
                     [hashes |-> hashes, ungrounded_hashes |-> ungrounded_hashes,
                      by_hash_term |-> by_hash_term]))

hash_terms(quads, terms, grounded_hashes, o) ==
  LET FromInput(r) == [r EXCEPT !.history = <<grounded_hashes>> \o @]
  IN FromInput(HashLoop(quads, terms, grounded_hashes, EmptyMap, {}, o))

(***************************************************************************)
(* Bijection verifier.                                                      *)
(***************************************************************************)
map_get_or(map, k) == IF k \in DOMAIN map THEN map[k] ELSE k

verify_bijection(graph_a, graph_b, bijection) ==
  IF Len(graph_a) # Len(graph_b) THEN FALSE
  ELSE LET index_b == index_graph(graph_b)
       IN \A i \in 1..Len(graph_a) :
            LET quad == graph_a[i]
                s == map_get_or(bijection, quad.subject)
                p == map_get_or(bijection, quad.predicate)
                o == map_get_or(bijection, quad.object)
            IN (s \o "|" \o p \o "|" \o o) \in index_b

(***************************************************************************)
(* Speculative matcher.                                                     *)
(***************************************************************************)
hash_contains_value(hash, value) == \E k \in DOMAIN hash : hash[k] = value

\* A plausible slip: the pairing does not skip the side-B nodes already used.
RECURSIVE FirstMatchIgnoringUsed(_, _, _, _, _)
FirstMatchIgnoringUsed(blank_nodes_b, hashes_b, used_b_nodes, hash_a, j) ==
  IF j > Len(blank_nodes_b) THEN <<>>
  ELSE LET node_b == blank_nodes_b[j]
       IN IF node_b \in DOMAIN hashes_b /\ hashes_b[node_b] = hash_a
          THEN <<node_b>>
          ELSE FirstMatchIgnoringUsed(blank_nodes_b, hashes_b, used_b_nodes, hash_a, j + 1)

\* The inner loop of the pairing: the first unused node_b grounded with hash_a.
RECURSIVE FirstMatch(_, _, _, _, _)
FirstMatch(blank_nodes_b, hashes_b, used_b_nodes, hash_a, j) ==
  IF j > Len(blank_nodes_b) THEN <<>>
  ELSE LET node_b == blank_nodes_b[j]
       IN IF /\ node_b \notin used_b_nodes
             /\ node_b \in DOMAIN hashes_b
             /\ hashes_b[node_b] = hash_a
          THEN <<node_b>>
          ELSE FirstMatch(blank_nodes_b, hashes_b, used_b_nodes, hash_a, j + 1)

\* The outer loop of the pairing: st = [bijection, used_b_nodes].
RECURSIVE PairGrounded(_, _, _, _, _, _)
PairGrounded(blank_nodes_a, blank_nodes_b, hashes_a, hashes_b, i, st) ==
  IF i > Len(blank_nodes_a) THEN st
  ELSE LET node_a == blank_nodes_a[i]
           m == IF node_a \in DOMAIN hashes_a
                THEN FirstMatch(blank_nodes_b, hashes_b, st.used_b_nodes,
                                hashes_a[node_a], 1)
                ELSE <<>>
       IN PairGrounded(blank_nodes_a, blank_nodes_b, hashes_a, hashes_b, i + 1,
            IF m # <<>>
            THEN [bijection |-> Insert(st.bijection, node_a, m[1]),
                  used_b_nodes |-> st.used_b_nodes \cup {m[1]}]
            ELSE st)

\* A plausible slip: the pairing is taken for complete without a look.
bijection_is_complete_unchecked(bijection, blank_nodes_a, blank_nodes_b) == TRUE

\* "Check if all nodes are in the bijection": the sorted keys are the sorted
\* side-A blanks and the sorted values the sorted side-B blanks.
bijection_is_complete(bijection, blank_nodes_a, blank_nodes_b) ==
  LET bijection_keys == SortedSeqOfSet(DOMAIN bijection)
      bijection_values == SortStrings(
        [i \in 1..Len(bijection_keys) |-> bijection[bijection_keys[i]]])
  IN /\ bijection_keys = SortStrings(blank_nodes_a)
     /\ bijection_values = SortStrings(blank_nodes_b)

\* A plausible slip: the two loops are nested the other way round.
SpeculationPairsByB(blank_nodes_a, blank_nodes_b, ha, hb) ==
  LET pairs == [k \in 1..(Len(blank_nodes_a) * Len(blank_nodes_b)) |->
                  <<blank_nodes_a[((k - 1) % Len(blank_nodes_a)) + 1],
                    blank_nodes_b[((k - 1) \div Len(blank_nodes_a)) + 1]>>]
  IN SelectSeq(pairs, LAMBDA pr :
       /\ pr[1] \notin DOMAIN ha.hashes
       /\ pr[2] \notin DOMAIN hb.hashes
       /\ pr[1] \in DOMAIN ha.ungrounded_hashes
       /\ pr[2] \in DOMAIN hb.ungrounded_hashes
       /\ ha.ungrounded_hashes[pr[1]] = hb.ungrounded_hashes[pr[2]])

\* The candidate pairs of the speculation, in the order of the two nested loops.
SpeculationPairs(blank_nodes_a, blank_nodes_b, ha, hb) ==
  LET pairs == [k \in 1..(Len(blank_nodes_a) * Len(blank_nodes_b)) |->
                  <<blank_nodes_a[((k - 1) \div Len(blank_nodes_b)) + 1],
                    blank_nodes_b[((k - 1) % Len(blank_nodes_b)) + 1]>>]
  IN SelectSeq(pairs, LAMBDA pr :
       /\ pr[1] \notin DOMAIN ha.hashes
       /\ pr[2] \notin DOMAIN hb.hashes
       /\ pr[1] \in DOMAIN ha.ungrounded_hashes
       /\ pr[2] \in DOMAIN hb.ungrounded_hashes
       /\ ha.ungrounded_hashes[pr[1]] = hb.ungrounded_hashes[pr[2]])

\* [bijection, frame]: bijection is the Option<HashMap<String, String>> returned,
\* <<>> or <<bijection>>; frame records the maps of this call and, in children,
\* the frames of the recursive calls it made, in the order it made them.
\* passes is the number of iterations of the while loop of hash_terms; paired
\* is the map built by the pairing loops (<<>> when the call returned before
\* them), verified the value of verify_bijection (<<>> when it was not called),
\* returned the Option the call returned.
RECURSIVE get_bijection_inner(_, _, _, _, _, _, _)
\* A plausible slip: the clone of the side-A map is handed on without the insert.
new_grounded_a_without_insert(grounded_hashes_a, node_a, new_hash) == grounded_hashes_a

\* grounded_hashes_a.clone() with the speculated node inserted.
new_grounded_a(grounded_hashes_a, node_a, new_hash) ==
  Insert(grounded_hashes_a, node_a, new_hash)

\* grounded_hashes_b.clone() with the speculated node inserted.
new_grounded_b(grounded_hashes_b, node_b, new_hash) ==
  Insert(grounded_hashes_b, node_b, new_hash)

\* The two nested loops of the speculation over pairs[lo..hi], in order, up to
\* the first recursive call that returns Some; the range is halved instead of
\* walked, which keeps the evaluation shallow.
RECURSIVE Speculate(_, _, _, _, _, _, _, _, _, _)
Speculate(blank_quads_a, blank_quads_b, blank_nodes_a, blank_nodes_b, grounded_hashes_a, grounded_hashes_b, pairs, lo, hi, o) ==
  IF lo > hi THEN [bijection |-> <<>>, children |-> <<>>]
  ELSE IF lo = hi
  THEN LET node_a == pairs[lo][1]
           node_b == pairs[lo][2]
           new_hash == hash_string(node_a)
           Returned(r) == [bijection |-> r.bijection, children |-> <<r.frame>>]
       IN Returned(get_bijection_inner(blank_quads_a, blank_quads_b,
                                       blank_nodes_a, blank_nodes_b,
                                       new_grounded_a(grounded_hashes_a, node_a, new_hash),
                                       new_grounded_b(grounded_hashes_b, node_b, new_hash),
                                       o))
  ELSE LET mid == (lo + hi) \div 2
           After(first, rest) == [rest EXCEPT !.children = first.children \o @]
           Earlier(first) ==
             IF first.bijection # <<>> THEN first
             ELSE After(first,
                        Speculate(blank_quads_a, blank_quads_b,
                                  blank_nodes_a, blank_nodes_b,
                                  grounded_hashes_a, grounded_hashes_b,
                                  pairs, mid + 1, hi, o))
       IN Earlier(Speculate(blank_quads_a, blank_quads_b, blank_nodes_a, blank_nodes_b,
                            grounded_hashes_a, grounded_hashes_b, pairs, lo, mid, o))

get_bijection_inner(blank_quads_a, blank_quads_b, blank_nodes_a, blank_nodes_b, grounded_hashes_a, grounded_hashes_b, o) ==
  LET Hashed(ha, hb) ==
        LET hashes_a == ha.hashes
            hashes_b == hb.hashes
            this == [grounded_hashes_a |-> grounded_hashes_a,
                     grounded_hashes_b |-> grounded_hashes_b,
                     hashes_a |-> hashes_a, hashes_b |-> hashes_b,
                     ungrounded_hashes_a |-> ha.ungrounded_hashes,
                     ungrounded_hashes_b |-> hb.ungrounded_hashes,
                     passes_a |-> ha.passes, passes_b |-> hb.passes,
                     history_a |-> ha.history, history_b |-> hb.history,
                     by_hash_term_a |-> ha.by_hash_term,
                     by_hash_term_b |-> hb.by_hash_term,
                     paired |-> <<>>, verified |-> <<>>, returned |-> <<>>,
                     children |-> <<>>]
            None == [bijection |-> <<>>, frame |-> this]
            Speculated(r, bijection) ==
              [bijection |-> r.bijection,
               frame |-> [this EXCEPT !.children = r.children,
                                      !.paired = <<bijection>>,
                                      !.returned = r.bijection]]
            Verified(ok, bijection) ==
              [bijection |-> IF ok THEN <<bijection>> ELSE <<>>,
               frame |-> [this EXCEPT !.paired = <<bijection>>,
                                      !.verified = <<ok>>,
                                      !.returned = IF ok THEN <<bijection>> ELSE <<>>]]
            Paired(bijection) ==
              IF ~bijection_is_complete(bijection, blank_nodes_a, blank_nodes_b)
                 THEN LET All(pairs) ==
                            Speculate(blank_quads_a, blank_quads_b,
                                      blank_nodes_a, blank_nodes_b,
                                      grounded_hashes_a, grounded_hashes_b,
                                      pairs, 1, Len(pairs), o)
                      IN Speculated(All(SpeculationPairs(blank_nodes_a, blank_nodes_b,
                                                         ha, hb)),
                                    bijection)
                 ELSE Verified(verify_bijection(blank_quads_a, blank_quads_b, bijection),
                               bijection)
        IN IF Cardinality(DOMAIN hashes_a) # Cardinality(DOMAIN hashes_b) THEN None
           ELSE IF \E k \in DOMAIN hashes_a :
                     ~hash_contains_value(hashes_b, hashes_a[k])
           THEN None
           ELSE Paired(PairGrounded(blank_nodes_a, blank_nodes_b, hashes_a, hashes_b, 1,
                         [bijection |-> EmptyMap, used_b_nodes |-> {}]).bijection)
  IN Hashed(hash_terms(blank_quads_a, blank_nodes_a, grounded_hashes_a, o.a),
            hash_terms(blank_quads_b, blank_nodes_b, grounded_hashes_b, o.b))

(***************************************************************************)
(* Orchestrator.                                                            *)
(***************************************************************************)
\* A plausible slip: the size comparison of the two indexes is left out.
ground_quads_subset(index_a, index_b) == \A key \in index_a : key \in index_b

\* The comparison of the two indexes of non-blank quads in get_bijection.
ground_quads_equal(index_a, index_b) ==
  /\ Cardinality(index_a) = Cardinality(index_b)
  /\ \A key \in index_a : key \in index_b

get_bijection(graph_a, graph_b, o) ==
  LET index_a == index_graph(get_quads_without_blank_nodes(graph_a))
      index_b == index_graph(get_quads_without_blank_nodes(graph_b))
      None == [bijection |-> <<>>, frame |-> <<>>, panic |-> FALSE]
  IN IF ~ground_quads_equal(index_a, index_b) THEN None
     ELSE IF \/ uniq_graph_panics(get_quads_with_blank_nodes(graph_a))
             \/ uniq_graph_panics(get_quads_with_blank_nodes(graph_b))
     THEN [None EXCEPT !.panic = TRUE]
     ELSE LET blank_quads_a == uniq_graph(get_quads_with_blank_nodes(graph_a), o.a)
              blank_quads_b == uniq_graph(get_quads_with_blank_nodes(graph_b), o.b)
              blank_nodes_a == get_graph_blank_nodes(graph_a)
              blank_nodes_b == get_graph_blank_nodes(graph_b)
          IN IF Len(blank_nodes_a) # Len(blank_nodes_b) THEN None
             ELSE LET Searched(r) ==
                        [bijection |-> r.bijection, frame |-> <<r.frame>>,
                         panic |-> FALSE]
                  IN Searched(get_bijection_inner(blank_quads_a, blank_quads_b,
                                                  blank_nodes_a, blank_nodes_b,
                                                  EmptyMap, EmptyMap, o))

\* [value, frame, panic]: value is the bool returned, frame the Option of the
\* first frame of get_bijection_inner.
is_isomorphic(graph_a, graph_b, o) ==
  IF Len(graph_a) # Len(graph_b)
  THEN [value |-> FALSE, frame |-> <<>>, panic |-> FALSE]
  ELSE LET Some(r) ==
             [value |-> r.bijection # <<>>, frame |-> r.frame, panic |-> r.panic]
       IN Some(get_bijection(graph_a, graph_b, o))

\* Result<bool, TulnaError>: tag is "Ok" on every return of the source, which
\* has no Err(..) expression; "panic" when the call unwinds instead.
check_bgp_isomorphism(bgp1, bgp2, o) ==
  IF Len(bgp1) # Len(bgp2)
  THEN [tag |-> "Ok", value |-> FALSE, frame |-> <<>>]
  ELSE LET Returned(r) ==
             [tag |-> IF r.panic THEN "panic" ELSE "Ok",
              value |-> r.value, frame |-> r.frame]
       IN Returned(is_isomorphic(normalize_bgp(bgp1), normalize_bgp(bgp2), o))

are_isomorphic(graph1, graph2, o) == check_bgp_isomorphism(graph1, graph2, o)

(***************************************************************************)
(* Inputs.  A graph is a sequence of at most MaxLen triples drawn from one  *)
(* of the pools below; every pair of graphs over the same pool is compared, *)
(* every graph is compared with its renamings, and the graphs of            *)
(* tests/isomorphism_speculation_tests.rs are compared as the tests do.     *)
(***************************************************************************)
MaxLen == 2

SeqsUpTo(S, n) == UNION {[1..k -> S] : k \in 0..n}

Triples(S, P, O) == {Triple(s, p, o) : s \in S, p \in P, o \in O}

\* Variables only: self loops, two-cycles, twins.
PoolStructure ==
  Triples({Variable("x"), Variable("y")}, {IRI("p")},
          {Variable("x"), Variable("y")})

\* A BlankNode whose id reads like a generated variable id.
PoolNames ==
  Triples({Variable("x"), Variable("y")}, {IRI("p")},
          {Variable("y"), BlankNode("b1")})

\* Literals that contain the separator of the string index.
PoolText ==
  Triples({Variable("x")}, {IRI("p")},
          {Variable("x"), Literal("a"), Literal("a|b"), Literal("a|c")})

\* Triples without unlabeled terms.
PoolGround ==
  Triples({Literal("a"), Literal("a\"|\"b")}, {Literal("c"), Literal("b\"|\"c")},
          {IRI("o")})

\* Unlabeled terms in predicate position.
PoolPredicate ==
  Triples({Variable("x")}, {IRI("p"), Variable("y")},
          {Variable("x"), BlankNode("c")})

PoolPrefix ==
  Triples({IRI("_:x"), Variable("x")}, {IRI("p")}, {Literal("_:x"), BlankNode("x")})

Pools == {PoolStructure, PoolNames, PoolText, PoolGround, PoolPredicate, PoolPrefix}

Edge(a, b) == Triple(Variable(a), IRI("next"), Variable(b))

Cycle(names) ==
  [i \in 1..Len(names) |-> Edge(names[i], names[(i % Len(names)) + 1])]

Clique(names) ==
  LET pairs == SelectSeq(
        [k \in 1..(Len(names) * Len(names)) |->
           <<((k - 1) \div Len(names)) + 1, ((k - 1) % Len(names)) + 1>>],
        LAMBDA pr : pr[1] # pr[2])
  IN [k \in 1..Len(pairs) |-> Edge(names[pairs[k][1]], names[pairs[k][2]])]

Cycle3A == Cycle(<<"a", "b", "c">>)
Cycle3B == Cycle(<<"x", "y", "z">>)
Cycle6 == Cycle(<<"1", "2", "3", "4", "5", "6">>)
TwoCycle3 == Cycle3A \o Cycle3B
Clique4A == Clique(<<"1", "2", "3", "4">>)
Clique4B == Clique(<<"a", "b", "c", "d">>)

TestPairs ==
  {<<Cycle3A, Cycle3B>>, <<Cycle6, TwoCycle3>>, <<TwoCycle3, Cycle6>>,
   <<Clique4A, Clique4B>>, <<Cycle6, Cycle6>>, <<TwoCycle3, TwoCycle3>>}

\* A 2-cycle whose two nodes are both pointed at by a third node: the third node
\* is grounded by its unique signature, the two others need speculation.
FanA == <<Edge("z", "x"), Edge("z", "y"), Edge("x", "y"), Edge("y", "x")>>
FanB == <<Edge("c", "a"), Edge("c", "b"), Edge("a", "b"), Edge("b", "a")>>

FanPairs == {<<FanA, FanB>>, <<FanA, FanA>>}

\* Three nodes that point at the IRI c, two by p and one by q on side A, one by
\* p and two by q on side B, next to a 2-cycle that needs speculation.
Leaf(x, p) == Triple(Variable(x), IRI(p), IRI("c"))

MultiplicityA ==
  <<Leaf("x", "p"), Leaf("y", "p"), Leaf("z", "q"), Edge("u", "v"), Edge("v", "u")>>

MultiplicityB ==
  <<Leaf("x", "p"), Leaf("y", "q"), Leaf("z", "q"), Edge("u", "v"), Edge("v", "u")>>

\* The fan next to two nodes that point at the IRI c by the same predicate.
FanWithLeaves == FanA \o <<Leaf("l", "p"), Leaf("m", "p")>>

MultiplicityPairs ==
  {<<MultiplicityA, MultiplicityB>>, <<MultiplicityA, MultiplicityA>>,
   <<FanWithLeaves, FanWithLeaves>>}

\* A 2-cycle and a 3-cycle, listed in the two orders: the blanks all carry the
\* same hash, and the first candidate pairs join a blank of the 2-cycle with one
\* of the 3-cycle.
MixedCyclesA == Cycle(<<"u", "v">>) \o Cycle3A

MixedCyclesB == Cycle3A \o Cycle(<<"u", "v">>)

MixedCyclePairs == {<<MixedCyclesA, MixedCyclesB>>}

rename_term(t, kind, sigma) ==
  IF t.kind = kind /\ t.v \in DOMAIN sigma THEN [kind |-> kind, v |-> sigma[t.v]] ELSE t

Rename(g, kind, sigma) ==
  [i \in 1..Len(g) |->
     Triple(rename_term(g[i].subject, kind, sigma),
            rename_term(g[i].predicate, kind, sigma),
            rename_term(g[i].object, kind, sigma))]

TermsOf(g) == UNION {{g[i].subject, g[i].predicate, g[i].object} : i \in 1..Len(g)}

NamesOf(g, kind) == {t.v : t \in {u \in TermsOf(g) : u.kind = kind}}

Injections(S, T) == {f \in [S -> T] : \A a, b \in S : f[a] = f[b] => a = b}

FreshVariableNames == {"u", "b1"}

FreshBlankIds == {"b0", "e"}

VariableRenamings(g) ==
  {Rename(g, "Variable", sigma) :
     sigma \in Injections(NamesOf(g, "Variable"), FreshVariableNames)}

BlankRenamings(g) ==
  {Rename(g, "BlankNode", sigma) :
     sigma \in Injections(NamesOf(g, "BlankNode"), FreshBlankIds)}

\* A Variable supplied as a BlankNode instead.
as_blank(t, sigma) ==
  IF t.kind = "Variable" THEN BlankNode(sigma[t.v]) ELSE t

VariablesAsBlanks(g) ==
  {[i \in 1..Len(g) |->
      Triple(as_blank(g[i].subject, sigma), as_blank(g[i].predicate, sigma),
             as_blank(g[i].object, sigma))] :
     sigma \in Injections(NamesOf(g, "Variable"),
                          FreshBlankIds \ NamesOf(g, "BlankNode"))}

Renamings(g) == VariableRenamings(g) \cup BlankRenamings(g) \cup VariablesAsBlanks(g)

InputPairs ==
  UNION {SeqsUpTo(pool, MaxLen) \X SeqsUpTo(pool, MaxLen) : pool \in Pools}
    \cup UNION {{<<g, h>> : h \in Renamings(g)} :
                  g \in UNION {SeqsUpTo(pool, MaxLen) : pool \in Pools}}
    \cup TestPairs \cup FanPairs \cup MultiplicityPairs \cup MixedCyclePairs

\* The iteration orders of the maps of the two sides.
Orders ==
  {[a |-> "ascending", b |-> "ascending"],
   [a |-> "descending", b |-> "rotated"],
   [a |-> "rotated", b |-> "descending"]}


(***************************************************************************)
(* Query texts.  A query is                                                 *)
(*   REGISTER RStream <output> AS          (when register)                  *)
(*   SELECT ...                                                             *)
(*   FROM NAMED WINDOW window_name ON STREAM stream_name [...]   (windows)  *)
(*   WHERE { ... }                                                          *)
(* The bracket of a window line is [RANGE range STEP step] (form "live"),   *)
(* [OFFSET offset RANGE range STEP step] ("sliding") or [START start END    *)
(* end] ("fixed").  The WHERE clause is the sequence of its tokens between  *)
(* the outer braces, each with its brace depth.  No name that occurs in a   *)
(* query contains a keyword.                                                *)
(***************************************************************************)
WindowLine(w, st, form, offset, range, step, start, end) == [window_name |-> w, stream_name |-> st, form |-> form, offset |-> offset, range |-> range, step |-> step, start |-> start, end |-> end]

LiveWindow(w, st, range, step) == WindowLine(w, st, "live", "", range, step, "", "")

SlidingWindow(w, st, offset, range, step) == WindowLine(w, st, "sliding", offset, range, step, "", "")

FixedWindow(w, st, start, end) == WindowLine(w, st, "fixed", "", "", "", start, end)

Query(register, windows, where) == [register |-> register, windows |-> windows, where |-> where]

At(depth, toks) == [i \in 1..Len(toks) |-> [depth |-> depth, tok |-> toks[i]]]

\* The keywords that detect_query_type looks for, as they occur in the text.
Keywords(query) ==
  (IF query.register THEN {"REGISTER", "STREAM"} ELSE {})
    \cup UNION {{"FROM", "NAMED", "WINDOW", "ON STREAM", "STREAM"}
                  \cup (CASE query.windows[i].form = "live" -> {"RANGE", "STEP"}
                          [] query.windows[i].form = "sliding" -> {"OFFSET", "RANGE", "STEP"}
                          [] query.windows[i].form = "fixed" -> {"START", "END"})
                : i \in 1..Len(query.windows)}
    \cup ({query.where[i].tok : i \in 1..Len(query.where)} \cap {"WINDOW"})

detect_query_type(query) ==
  LET upper == Keywords(query)
  IN IF \/ {"OFFSET", "RANGE", "STEP"} \subseteq upper
        \/ {"START", "END"} \subseteq upper
     THEN "JanusQL"
     ELSE IF {"REGISTER", "STREAM"} \subseteq upper THEN "RSPQL"
     ELSE IF {"FROM", "NAMED", "WINDOW", "ON STREAM"} \subseteq upper THEN "RSPQL"
     ELSE "SPARQL"

IsDigits(s) ==
  s # "" /\ \A i \in 1..Len(s) : \E d \in 1..10 : Digits[d] = CharAt(s, i)

RECURSIVE DigitsValue(_, _, _)
DigitsValue(s, i, n) ==
  IF i > Len(s) THEN n
  ELSE DigitsValue(s, i + 1, 10 * n + (CHOOSE d \in 0..9 : Digits[d + 1] = CharAt(s, i)))

\* str::parse::<i64>() and ::<u64>() on the numbers of the queries: Ok(n) is
\* <<n>>, Err is <<>>.
parse_number(s) == IF IsDigits(s) THEN <<DigitsValue(s, 1, 0)>> ELSE <<>>

unwrap_or(r, default) == IF r = <<>> THEN default ELSE r[1]

ends_with(s, suffix) ==
  Len(s) >= Len(suffix) /\ SubSeq(s, Len(s) - Len(suffix) + 1, Len(s)) = suffix

\* RSPQLParser::unwrap with the prefix mapper of a query without PREFIX lines.
unwrap(prefixed_iri) ==
  IF starts_with(prefixed_iri, "<") /\ ends_with(prefixed_iri, ">")
  THEN SubSeq(prefixed_iri, 2, Len(prefixed_iri) - 1)
  ELSE ""

\* JanusQLParser::unwrap_iri with the prefix mapper of a query without PREFIX
\* lines.
unwrap_iri(prefixed_iri) ==
  IF starts_with(prefixed_iri, "<") /\ ends_with(prefixed_iri, ">")
  THEN SubSeq(prefixed_iri, 2, Len(prefixed_iri) - 1)
  ELSE prefixed_iri

parse_node(node_str) ==
  IF starts_with(node_str, "?") \/ starts_with(node_str, "$")
  THEN Variable(SubSeq(node_str, 2, Len(node_str)))
  ELSE IF starts_with(node_str, "<") /\ ends_with(node_str, ">")
  THEN IRI(SubSeq(node_str, 2, Len(node_str) - 1))
  ELSE IF starts_with(node_str, "_:")
  THEN BlankNode(SubSeq(node_str, 3, Len(node_str)))
  ELSE IRI(node_str)

\* The text at brace depth 1, and nothing of the blocks nested in it.
extract_inner_braces(where_clause) ==
  LET at_depth_1 == SelectSeq(where_clause, LAMBDA c : c.depth = 1)
  IN [i \in 1..Len(at_depth_1) |-> at_depth_1[i].tok]

\* The matches of triple_pattern from token i on: three terms and a dot.
RECURSIVE captures_iter(_, _)
captures_iter(content, i) ==
  IF i + 3 > Len(content) THEN <<>>
  ELSE IF /\ \A j \in i..(i + 2) : content[j] # "."
          /\ content[i + 3] = "."
       THEN <<Triple(parse_node(content[i]),
                     IF content[i + 1] = "a"
                     THEN IRI("http://www.w3.org/1999/02/22-rdf-syntax-ns#type")
                     ELSE parse_node(content[i + 1]),
                     parse_node(content[i + 2]))>>
              \o captures_iter(content, i + 4)
       ELSE captures_iter(content, i + 1)

extract_bgp_from_where(where_clause) ==
  captures_iter(extract_inner_braces(where_clause), 1)

None == <<>>

Some(v) == <<v>>

IsomorphismQuery(language, bgp, stream_name, window_name, width, slide, offset, start, end) == [query_language |-> language, bgp |-> bgp, stream_name |-> stream_name, window_name |-> window_name, width |-> width, slide |-> slide, offset |-> offset, start |-> start, end |-> end]

parse_sparql(query) ==
  IsomorphismQuery("SPARQL", extract_bgp_from_where(query.where),
                   None, None, None, None, None, None, None)

\* RSPQLParser::parse: a window line is kept when it has the bracket
\* [RANGE r STEP s]; r and s are any text without a space.
s2r(query) ==
  LET lines == SelectSeq(query.windows, LAMBDA line : line.form = "live")
  IN [i \in 1..Len(lines) |->
        [window_name |-> unwrap(lines[i].window_name),
         stream_name |-> unwrap(lines[i].stream_name),
         width |-> unwrap_or(parse_number(lines[i].range), 0),
         slide |-> unwrap_or(parse_number(lines[i].step), 0)]]

\* The lines that RSPQLParser::parse hands on as sparql_query: a line that
\* starts with WINDOW starts with GRAPH instead.
sparql_query(query) ==
  [i \in 1..Len(query.where) |->
     IF query.where[i].tok = "WINDOW"
     THEN [query.where[i] EXCEPT !.tok = "GRAPH"]
     ELSE query.where[i]]

parse_rspql(query) ==
  LET bgp == extract_bgp_from_where(sparql_query(query))
      windows == s2r(query)
  IN IF windows # <<>>
     THEN LET window == windows[1]
          IN IsomorphismQuery("RSPQL", bgp, Some(window.stream_name),
                              Some(window.window_name), Some(window.width),
                              Some(window.slide), None, None, None)
     ELSE IsomorphismQuery("RSPQL", bgp, None, None, None, None, None, None, None)

\* JanusQLParser::parse_window: Some(window) when the line matches one of the
\* three regular expressions, whose numbers are \d+.
parse_window(line) ==
  CASE line.form = "sliding" /\ IsDigits(line.offset) /\ IsDigits(line.range) /\ IsDigits(line.step) ->
         Some([window_name |-> unwrap_iri(line.window_name),
               stream_name |-> unwrap_iri(line.stream_name),
               offset |-> parse_number(line.offset),
               width |-> parse_number(line.range)[1],
               slide |-> parse_number(line.step)[1],
               start |-> None, end |-> None, window_type |-> "HistoricalSliding"])
    [] line.form = "fixed" /\ IsDigits(line.start) /\ IsDigits(line.end) ->
         Some([window_name |-> unwrap_iri(line.window_name),
               stream_name |-> unwrap_iri(line.stream_name),
               start |-> parse_number(line.start),
               end |-> parse_number(line.end),
               width |-> 0, slide |-> 0,
               offset |-> None, window_type |-> "HistoricalFixed"])
    [] line.form = "live" /\ IsDigits(line.range) /\ IsDigits(line.step) ->
         Some([window_name |-> unwrap_iri(line.window_name),
               stream_name |-> unwrap_iri(line.stream_name),
               width |-> parse_number(line.range)[1],
               slide |-> parse_number(line.step)[1],
               offset |-> None, start |-> None, end |-> None,
               window_type |-> "Live"])
    [] OTHER -> None

parsed_windows(query) ==
  LET parsed == [i \in 1..Len(query.windows) |-> parse_window(query.windows[i])]
      matched == SelectSeq(parsed, LAMBDA w : w # None)
  IN [i \in 1..Len(matched) |-> matched[i][1]]

live_windows(query) ==
  SelectSeq(parsed_windows(query), LAMBDA w : w.window_type = "Live")

historical_windows(query) ==
  SelectSeq(parsed_windows(query), LAMBDA w : w.window_type # "Live")

parse_janusql(query) ==
  LET bgp == extract_bgp_from_where(query.where)
  IN IF live_windows(query) # <<>>
     THEN LET window == live_windows(query)[1]
          IN IsomorphismQuery("JanusQL", bgp, Some(window.stream_name),
                              Some(window.window_name), Some(window.width),
                              Some(window.slide), None, None, None)
     ELSE IF historical_windows(query) # <<>>
     THEN LET window == historical_windows(query)[1]
          IN IsomorphismQuery("JanusQL", bgp, Some(window.stream_name),
                              Some(window.window_name), Some(window.width),
                              Some(window.slide), window.offset, window.start,
                              window.end)
     ELSE IsomorphismQuery("JanusQL", bgp, None, None, None, None, None, None, None)

parse_query(query) ==
  LET query_type == detect_query_type(query)
  IN CASE query_type = "SPARQL" -> parse_sparql(query)
       [] query_type = "RSPQL" -> parse_rspql(query)
       [] query_type = "JanusQL" -> parse_janusql(query)

check_stream_parameters_equal(q1, q2) ==
  /\ q1.stream_name = q2.stream_name
  /\ q1.width = q2.width
  /\ q1.slide = q2.slide
  /\ q1.offset = q2.offset
  /\ q1.start = q2.start
  /\ q1.end = q2.end

check_window_names_equal(q1, q2) == q1.window_name = q2.window_name

\* QueryIsomorphism::check_bgp_isomorphism.  The Err arm is never taken: the
\* graph check has no path that returns Err.
QueryIsomorphism_check_bgp_isomorphism(bgp1, bgp2, o) ==
  IF Len(bgp1) # Len(bgp2) THEN [tag |-> "Ok", value |-> FALSE]
  ELSE LET Matched(r) == [tag |-> r.tag, value |-> r.value]
       IN Matched(check_bgp_isomorphism(bgp1, bgp2, o))

\* QueryIsomorphism::is_isomorphic, to which QueryIsomorphismAPI::is_isomorphic
\* delegates.
QueryIsomorphism_is_isomorphic(text_one, text_two, o) ==
  LET Compared(q1, q2) ==
        IF /\ (q1.query_language # "SPARQL" \/ q2.query_language # "SPARQL")
           /\ (~check_stream_parameters_equal(q1, q2) \/ ~check_window_names_equal(q1, q2))
        THEN [tag |-> "Ok", value |-> FALSE]
        ELSE QueryIsomorphism_check_bgp_isomorphism(q1.bgp, q2.bgp, o)
  IN Compared(parse_query(text_one), parse_query(text_two))

QueryComparisonResult(is_iso, same_language, same_stream_params, same_window_name, same_bgp_size, bgp_isomorphic) == [is_isomorphic |-> is_iso, same_language |-> same_language, same_stream_params |-> same_stream_params, same_window_name |-> same_window_name, same_bgp_size |-> same_bgp_size, bgp_isomorphic |-> bgp_isomorphic]

\* QueryIsomorphismAPI::compare_queries: the fields of the Ok value.
compare_queries(text_one, text_two, o) ==
  LET Compared(q1, q2) ==
        LET same_language == q1.query_language = q2.query_language
            same_stream_params ==
              /\ q1.stream_name = q2.stream_name
              /\ q1.width = q2.width
              /\ q1.slide = q2.slide
              /\ q1.offset = q2.offset
              /\ q1.start = q2.start
              /\ q1.end = q2.end
            same_window_name == q1.window_name = q2.window_name
            same_bgp_size == Len(q1.bgp) = Len(q2.bgp)
            Result(bgp_isomorphic) ==
              QueryComparisonResult(
                IF q1.query_language # "SPARQL" \/ q2.query_language # "SPARQL"
                THEN same_language /\ same_stream_params /\ same_window_name /\ bgp_isomorphic
                ELSE same_language /\ bgp_isomorphic,
                same_language, same_stream_params, same_window_name, same_bgp_size,
                bgp_isomorphic)
            unwrap_or_false(r) == IF r.tag = "Ok" THEN r.value ELSE FALSE
        IN Result(IF same_bgp_size
                  THEN unwrap_or_false(check_bgp_isomorphism(q1.bgp, q2.bgp, o))
                  ELSE FALSE)
  IN Compared(parse_query(text_one), parse_query(text_two))

(***************************************************************************)
(* The queries of the calls: the shapes of the queries of                   *)
(* tests/rspql_isomorphism_tests.rs and tests/janusql_isomorphism_tests.rs, *)
(* and RSP-QL windows whose RANGE and STEP are durations.                   *)
(***************************************************************************)
MaxWindows == 2

Brackets ==
  {LiveWindow("<w>", "<s>", "10", "5"), LiveWindow("<w>", "<s>", "20", "5"),
   LiveWindow("<w>", "<s>", "10", "10"),
   LiveWindow("<w>", "<s>", "PT10S", "PT5S"), LiveWindow("<w>", "<s>", "PT20S", "PT5S"),
   SlidingWindow("<w>", "<s>", "0", "100", "10"), SlidingWindow("<w>", "<s>", "50", "100", "10"),
   FixedWindow("<w>", "<s>", "1000", "2000"), FixedWindow("<w>", "<s>", "1500", "2000"),
   FixedWindow("<w>", "<s>", "1000", "3000")}

WindowLines ==
  Brackets \cup {LiveWindow("<v>", "<s>", "10", "5"), LiveWindow("<w>", "<t>", "10", "5")}

WindowBlock(w, toks) == At(1, <<"WINDOW", w>>) \o At(2, toks)

WhereClauses ==
  {At(1, <<"?s", "<p1>", "?o", ".">>),
   At(1, <<"?s", "<p2>", "?o", ".">>),
   WindowBlock("<w>", <<"?s", "<p1>", "?o", ".">>),
   WindowBlock("<w>", <<"?x", "<p2>", "?y", ".">>)}

Queries ==
  {Query(register, windows, where) :
     register \in BOOLEAN, windows \in SeqsUpTo(WindowLines, MaxWindows), where \in WhereClauses}

\* query with at most one window line and the WHERE clause replaced.
Variations(query) ==
  {Query(query.register, windows, where) :
     windows \in {query.windows}
                   \cup {[query.windows EXCEPT ![i] = line] :
                           i \in 1..Len(query.windows), line \in WindowLines},
     where \in WhereClauses}

NoQuery == Query(FALSE, <<>>, <<>>)

Running == [tag |-> "running", value |-> FALSE]

(***************************************************************************)
(* The program: one call of GraphIsomorphism::are_isomorphic.               *)
(***************************************************************************)
Start ==
  /\ \E pr \in InputPairs : g1 = pr[1] /\ g2 = pr[2]
  /\ ord \in Orders
  /\ pc = "start"
  /\ result = FALSE
  /\ outcome = "running"
  /\ frame = <<>>
  /\ query_one = NoQuery
  /\ query_two = NoQuery
  /\ answer = Running

\* murmur3 reads from a Cursor over a byte slice, which never fails.
Init == Start /\ hash_fails = FALSE

AreIsomorphic ==
  /\ pc = "start"
  /\ \E r \in {are_isomorphic(g1, g2, ord)} :
       /\ outcome' = r.tag
       /\ result' = r.value
       /\ frame' = r.frame
  /\ pc' = "done"
  /\ UNCHANGED <<g1, g2, ord, hash_fails, query_one, query_two, answer>>

Next == AreIsomorphic

Spec == Init /\ [][Next]_vars

\* With a hash implementation that fails, hash_string gives every blank the
\* hash 0 and the search is backtracking over all the pairs of blanks: the
\* calls are those of Spec on graphs of at most MaxBlanks blanks.
MaxBlanks == 4

FewBlanks(g) == Len(get_graph_blank_nodes(normalize_bgp(g))) <= MaxBlanks

HashFailurePairs == {pr \in InputPairs : FewBlanks(pr[1]) /\ FewBlanks(pr[2])}

\* The same call with a hash implementation that may report a failure.
InitHashFailure == Start /\ <<g1, g2>> \in HashFailurePairs /\ hash_fails \in BOOLEAN

SpecHashFailure == InitHashFailure /\ [][Next]_vars

(***************************************************************************)
(* The program: one call of QueryIsomorphismAPI::is_isomorphic.             *)
(***************************************************************************)
InitQuery ==
  /\ query_one \in Queries
  /\ query_two \in Variations(query_one)
  /\ ord = [a |-> "ascending", b |-> "ascending"]
  /\ hash_fails = FALSE
  /\ pc = "start"
  /\ answer = Running
  /\ g1 = <<>>
  /\ g2 = <<>>
  /\ result = FALSE
  /\ outcome = "running"
  /\ frame = <<>>

IsIsomorphic ==
  /\ pc = "start"
  /\ answer' = QueryIsomorphism_is_isomorphic(query_one, query_two, ord)
  /\ pc' = "done"
  /\ UNCHANGED <<g1, g2, ord, hash_fails, result, outcome, frame, query_one, query_two>>

NextQuery == IsIsomorphic

SpecQuery == InitQuery /\ [][NextQuery]_vars

(***************************************************************************)
(* Reference notions on the input graphs.                                   *)
(***************************************************************************)
TripleSet(g) == {g[i] : i \in 1..Len(g)}

IsUnlabeled(t) == t.kind \in {"Variable", "BlankNode"}

Unlabeled(g) == {t \in TermsOf(g) : IsUnlabeled(t)}

GroundTriples(g) ==
  {t \in TripleSet(g) :
     ~IsUnlabeled(t.subject) /\ ~IsUnlabeled(t.predicate) /\ ~IsUnlabeled(t.object)}

Bijections(S, T) == {f \in Injections(S, T) : \A b \in T : \E a \in S : f[a] = b}

Apply(pi, t) == IF t \in DOMAIN pi THEN pi[t] ELSE t

Image(pi, g) ==
  {Triple(Apply(pi, t.subject), Apply(pi, t.predicate), Apply(pi, t.object)) :
     t \in TripleSet(g)}

\* Isomorphic under a renaming of the unlabeled terms.
Isomorphic(a, b) ==
  /\ Cardinality(Unlabeled(a)) = Cardinality(Unlabeled(b))
  /\ \E pi \in Bijections(Unlabeled(a), Unlabeled(b)) : Image(pi, a) = TripleSet(b)

Count(g, t) == Cardinality({i \in 1..Len(g) : g[i] = t})

IsPermutationOf(g, h) ==
  /\ Len(g) = Len(h)
  /\ \A t \in TripleSet(g) \cup TripleSet(h) : Count(g, t) = Count(h, t)

Done == pc = "done"

(***************************************************************************)
(* Claims.                                                                  *)
(***************************************************************************)
\* C1: whenever are_isomorphic returns true, some bijection of the unlabeled
\* terms of G1 onto those of G2 maps the triple set of G1 onto that of G2.
C1_BijectionSoundness == Done /\ result => Isomorphic(g1, g2)

\* C2: graphs that are isomorphic under a renaming of their unlabeled terms are
\* reported isomorphic.
C2_Completeness == Done /\ Isomorphic(g1, g2) => result

\* C3: a graph and any permutation of its triple sequence are reported isomorphic.
C3_OrderInvariance == Done /\ IsPermutationOf(g1, g2) => result

\* C4: every graph is reported isomorphic to itself.
C4_Reflexivity == Done /\ g1 = g2 => result

C6_VariableRenaming == Done /\ g2 \in VariableRenamings(g1) => result

\* C7: a graph and its image under an injective renaming of its BlankNode ids to
\* fresh ids are reported isomorphic.
C7_BlankRenaming == Done /\ g2 \in BlankRenamings(g1) => result

\* C8: sequences with the same set of triples are reported isomorphic, however
\* often each triple is repeated.
C8_DuplicateTolerance == Done /\ TripleSet(g1) = TripleSet(g2) => result

\* C9: graphs with different numbers of distinct triples are reported not
\* isomorphic.
C9_SizeDiscrimination ==
  Done /\ Cardinality(TripleSet(g1)) # Cardinality(TripleSet(g2)) => ~result

\* C10: graphs whose sets of triples without unlabeled terms differ are reported
\* not isomorphic.
C10_GroundTripleNecessity ==
  Done /\ GroundTriples(g1) # GroundTriples(g2) => ~result

\* C11: a graph and the graph obtained by supplying each of its Variables as a
\* BlankNode with an id of its own, unused in the graph, are reported isomorphic.
C11_VariablesAsBlanks == Done /\ g2 \in VariablesAsBlanks(g1) => result

(***************************************************************************)
(* The frames of a call.                                                    *)
(***************************************************************************)
\* The frames of the tree f: f and the frames of the recursive calls under it.
RECURSIVE FramesOf(_)
FramesOf(f) ==
  {f} \cup UNION {FramesOf(f.children[i]) : i \in 1..Len(f.children)}

\* <<caller, callee>> for every recursive call of get_bijection_inner under f.
Calls(f) ==
  UNION {{<<p, p.children[i]>> : i \in 1..Len(p.children)} : p \in FramesOf(f)}

\* The number of nested recursive calls under f.
RECURSIVE Depth(_)
Depth(f) ==
  IF f.children = <<>> THEN 0
  ELSE LET deepest == CHOOSE i \in 1..Len(f.children) :
             \A j \in 1..Len(f.children) : Depth(f.children[j]) <= Depth(f.children[i])
       IN 1 + Depth(f.children[deepest])

Size(map) == Cardinality(DOMAIN map)

Searched == Done /\ frame # <<>>

BlankCount(g) == Len(get_graph_blank_nodes(normalize_bgp(g)))

\* m extends n: every entry of n is an entry of m.
Extends(m, n) == \A k \in DOMAIN n : k \in DOMAIN m /\ m[k] = n[k]

HasInvalidTerm(g) ==
  \E t \in TermsOf(g) : t.kind \in {"IRI", "Literal"} /\ starts_with(t.v, "_:")

\* The three rejections that precede the search.
PreflightRejects ==
  LET graph_a == normalize_bgp(g1)
      graph_b == normalize_bgp(g2)
  IN \/ Len(g1) # Len(g2)
     \/ ~ground_quads_equal(index_graph(get_quads_without_blank_nodes(graph_a)),
                            index_graph(get_quads_without_blank_nodes(graph_b)))
     \/ BlankCount(g1) # BlankCount(g2)

\* The order that follows o in a fixed cycle through Orders.
OtherOrder(o) ==
  CASE o.a = "ascending" -> [a |-> "descending", b |-> "rotated"]
    [] o.a = "descending" -> [a |-> "rotated", b |-> "descending"]
    [] o.a = "rotated" -> [a |-> "ascending", b |-> "ascending"]

\* C12: every call returns Ok(true) or Ok(false), never an Err and never a panic;
\* a preflight rejection and a failed search return Ok(false).
C12_NotIsomorphicIsAValue ==
  Done => /\ outcome = "Ok"
          /\ result \in BOOLEAN
          /\ (PreflightRejects => ~result /\ frame = <<>>)

\* C13: when an input triple holds an IRI or a Literal whose payload begins with
\* "_:", the call returns an Invalid-input error instead of a boolean.
C13_InvalidInputIsAnError ==
  Done /\ (HasInvalidTerm(g1) \/ HasInvalidTerm(g2)) => outcome = "InvalidInput"

C15_Determinism ==
  Done => result = are_isomorphic(g1, g2, OtherOrder(ord)).value

IsStreaming(query) == detect_query_type(query) # "SPARQL"

\* The triples written inside the WINDOW <w> { ... } blocks of a query.
WindowTriples(query) ==
  LET inside == SelectSeq(query.where, LAMBDA c : c.depth = 2)
  IN captures_iter([i \in 1..Len(inside) |-> inside[i].tok], 1)

PredicateIRIs(bgp) ==
  {bgp[i].predicate.v : i \in {j \in 1..Len(bgp) : bgp[j].predicate.kind = "IRI"}}

OkFalse == [tag |-> "Ok", value |-> FALSE]

\* C16: when at least one of the two queries is detected as RSP-QL or JanusQL and
\* their window declarations differ (stream name, window name, RANGE, STEP,
\* offset, start or end), the call returns Ok(false) whatever the WHERE clauses
\* are; when both are plain SPARQL the answer is that of the graph patterns.
C16_StreamParameterGate ==
  Done =>
    /\ ((IsStreaming(query_one) \/ IsStreaming(query_two))
          /\ query_one.windows # query_two.windows
        => answer = OkFalse)
    /\ (~IsStreaming(query_one) /\ ~IsStreaming(query_two)
        => answer = QueryIsomorphism_check_bgp_isomorphism(
                      parse_query(query_one).bgp, parse_query(query_two).bgp, ord))

\* C17: two streaming queries with the same window declarations whose triple
\* patterns inside the WINDOW block have different predicate IRIs get Ok(false).
C17_StreamingQueriesCompareBGP ==
  Done /\ IsStreaming(query_one) /\ IsStreaming(query_two)
       /\ query_one.windows = query_two.windows
       /\ PredicateIRIs(WindowTriples(query_one)) # PredicateIRIs(WindowTriples(query_two))
  => answer = OkFalse

\* C18: every recursive call of get_bijection_inner receives a side-A grounded
\* map with strictly more entries than its caller received, and the calls nest
\* no deeper than the number of blank nodes.
C18_RecursionTerminates ==
  Searched =>
    /\ \A call \in Calls(frame[1]) :
         Size(call[2].grounded_hashes_a) > Size(call[1].grounded_hashes_a)
    /\ Depth(frame[1]) <= BlankCount(g1)

\* C19: in every frame and on both sides, the grounded map returned by hash_terms
\* holds no more entries than the blanks given plus the pre-grounded entries, the
\* loop ran one pass more than the passes that gained an entry at most, hence at
\* most as many passes as there are blanks plus one.
C19_RefinementTerminates ==
  Searched =>
    \A f \in FramesOf(frame[1]) :
      /\ Size(f.hashes_a) <= BlankCount(g1) + Size(f.grounded_hashes_a)
      /\ Size(f.hashes_b) <= BlankCount(g2) + Size(f.grounded_hashes_b)
      /\ f.passes_a <= Size(f.hashes_a) - Size(f.grounded_hashes_a) + 1
      /\ f.passes_b <= Size(f.hashes_b) - Size(f.grounded_hashes_b) + 1
      /\ f.passes_a <= BlankCount(g1) + 1
      /\ f.passes_b <= BlankCount(g2) + 1

\* C20: the map handed to a recursive call extends the caller's refined grounded
\* map, and every blank grounded with hash h in the caller is grounded with the
\* same hash h in the recursive call, on both sides.
C20_GroundedMapMonotone ==
  Searched =>
    \A call \in Calls(frame[1]) :
      /\ Extends(call[2].grounded_hashes_a, call[1].hashes_a)
      /\ Extends(call[2].grounded_hashes_b, call[1].hashes_b)
      /\ Extends(call[2].hashes_a, call[1].hashes_a)
      /\ Extends(call[2].hashes_b, call[1].hashes_b)

\* The multiset of the values of a map: value -> number of keys that carry it.
ValueCounts(map) ==
  [v \in Range(map) |-> Cardinality({k \in DOMAIN map : map[k] = v})]

BlankSet(g) == Range(get_graph_blank_nodes(normalize_bgp(g)))

\* C21: within one call of hash_terms the grounded map only grows: each map of
\* the history of the call extends the maps before it, from the input map to the
\* map returned.
C21_GroundedMapOnlyGrows ==
  Searched =>
    \A f \in FramesOf(frame[1]) :
      /\ f.history_a[1] = f.grounded_hashes_a
      /\ f.history_a[Len(f.history_a)] = f.hashes_a
      /\ f.history_b[1] = f.grounded_hashes_b
      /\ f.history_b[Len(f.history_b)] = f.hashes_b
      /\ \A i \in 2..Len(f.history_a) : Extends(f.history_a[i], f.history_a[i - 1])
      /\ \A i \in 2..Len(f.history_b) : Extends(f.history_b[i], f.history_b[i - 1])

\* C22: the map ungrounded_hashes returned by hash_terms has an entry for every
\* blank of the given list, the blanks grounded in the input map included.
C22_EveryBlankHasAHash ==
  Searched =>
    \A f \in FramesOf(frame[1]) :
      /\ DOMAIN f.ungrounded_hashes_a = BlankSet(g1)
      /\ DOMAIN f.ungrounded_hashes_b = BlankSet(g2)

\* The keys of H that carry the hash of k.
Carriers(H, k) == {j \in DOMAIN H : H[j] = H[k]}

PromotionHolds(G_in, G_out, H_out, by_hash_term) ==
  /\ \A k \in DOMAIN H_out :
       Carriers(H_out, k) = {k} => k \in DOMAIN G_out /\ G_out[k] = H_out[k]
  /\ \A k \in DOMAIN H_out :
       Carriers(H_out, k) # {k} /\ k \in DOMAIN G_out
         => k \in DOMAIN G_in \/ k \in by_hash_term

C24_CrossSideSanity ==
  Searched =>
    \A f \in FramesOf(frame[1]) :
      ValueCounts(f.hashes_a) # ValueCounts(f.hashes_b)
        => f.returned = <<>> /\ f.children = <<>>

\* The frames that built the bijection they returned.
Builders(f) == {b \in FramesOf(f) : b.returned # <<>> /\ b.verified # <<>>}

\* C25: a returned bijection has the blank set of side A as its keys and the
\* blank set of side B as its values, no value twice, and pairs blanks whose
\* grounded hashes are equal in the frame that built it; the frames above hand
\* the same map on.
C25_BijectionTotalOneToOne ==
  Searched =>
    /\ \A f \in Builders(frame[1]) :
         LET m == f.returned[1]
         IN /\ DOMAIN m = BlankSet(g1)
            /\ Range(m) = BlankSet(g2)
            /\ \A a, b \in DOMAIN m : m[a] = m[b] => a = b
            /\ \A a \in DOMAIN m :
                 /\ a \in DOMAIN f.hashes_a
                 /\ m[a] \in DOMAIN f.hashes_b
                 /\ f.hashes_a[a] = f.hashes_b[m[a]]
    /\ \A f \in FramesOf(frame[1]) :
         f.returned # <<>> =>
           \E b \in Builders(f) : b.returned = f.returned

\* The pairs (a, b) a frame may speculate on.
Candidates(f) ==
  {pr \in (BlankSet(g1) \ DOMAIN f.hashes_a) \X (BlankSet(g2) \ DOMAIN f.hashes_b) :
     /\ pr[1] \in DOMAIN f.ungrounded_hashes_a
     /\ pr[2] \in DOMAIN f.ungrounded_hashes_b
     /\ f.ungrounded_hashes_a[pr[1]] = f.ungrounded_hashes_b[pr[2]]}

PairLess(p, q) == StrLess(p[1], q[1]) \/ (p[1] = q[1] /\ StrLess(p[2], q[2]))

\* The pairs of S in ascending order of (a, b).
SortedPairs(S) ==
  [i \in 1..Cardinality(S) |->
     CHOOSE p \in S : Cardinality({q \in S : PairLess(q, p)}) = i - 1]

\* The frames whose pairing of the grounded blanks was incomplete.
Speculating(f) == {s \in FramesOf(f) : s.paired # <<>> /\ s.verified = <<>>}

\* C26: a frame whose pairing is incomplete makes its recursive calls for the
\* candidate pairs in ascending order of (a, b), one call per pair, both blanks
\* of the pair grounded with the same synthetic hash; it stops at the first call
\* that returns a bijection and returns that bijection, and it returns None only
\* when it has made the call for every candidate pair.
C26_BacktrackingExhaustiveOrdered ==
  Searched =>
    \A f \in Speculating(frame[1]) :
      LET pairs == SortedPairs(Candidates(f))
          n == Len(f.children)
      IN /\ n <= Len(pairs)
         /\ \A i \in 1..n :
              LET a == pairs[i][1]
                  b == pairs[i][2]
                  child == f.children[i]
              IN /\ child.grounded_hashes_a = Insert(f.grounded_hashes_a, a, hash_string(a))
                 /\ child.grounded_hashes_b = Insert(f.grounded_hashes_b, b, hash_string(a))
                 /\ (i < n => child.returned = <<>>)
         /\ f.returned = (IF n = 0 THEN <<>> ELSE f.children[n].returned)
         /\ (f.returned = <<>> => n = Len(pairs))

\* Graph g with every blank rewritten by m, labeled terms unchanged.
Rewritten(g, m) ==
  [i \in 1..Len(g) |->
     NormalizedTriple(map_get_or(m, g[i].subject), map_get_or(m, g[i].predicate),
                      map_get_or(m, g[i].object))]

\* C27: for the total one-to-one map m that a frame hands to verify_bijection,
\* the verifier returns true exactly when normalized graph A rewritten by m has
\* the triple set of normalized graph B.
C27_VerifierExact ==
  Searched =>
    \A f \in FramesOf(frame[1]) :
      f.verified # <<>> =>
        (f.verified[1] <=> TripleSet(Rewritten(normalize_bgp(g1), f.paired[1]))
                             = TripleSet(normalize_bgp(g2)))

\* The unlabeled terms of g with their normalized identifiers: <<term, id>>.
NormalizedUnlabeled(g) ==
  LET graph == normalize_bgp(g)
      At3(i) == {<<g[i].subject, graph[i].subject>>, <<g[i].predicate, graph[i].predicate>>,
                 <<g[i].object, graph[i].object>>}
  IN {pr \in UNION {At3(i) : i \in 1..Len(g)} : IsUnlabeled(pr[1])}

InjectiveOn(pairs) == \A p, q \in pairs : p[2] = q[2] => p[1] = q[1]

\* C28: within one graph, two distinct unlabeled terms never get the same
\* normalized identifier; a generated _:b<n> never coincides with the _:<id>
\* of a BlankNode.
C28_NormalizationInjective ==
  Done => InjectiveOn(NormalizedUnlabeled(g1)) /\ InjectiveOn(NormalizedUnlabeled(g2))

\* The deduplicated list has the triples of graph, each exactly once.
Deduplicates(graph, o) ==
  LET u == uniq_graph(graph, o)
  IN /\ TripleSet(u) = TripleSet(graph)
     /\ Cardinality(TripleSet(u)) = Len(u)

\* C29: uniq_graph, as get_bijection applies it to the blank-bearing triples of
\* each normalized graph, keeps the triple set, each triple exactly once, also
\* when a literal or IRI payload contains the separator "|".
C29_UniqGraphPreservesTriples ==
  Done =>
    /\ Deduplicates(get_quads_with_blank_nodes(normalize_bgp(g1)), ord.a)
    /\ Deduplicates(get_quads_with_blank_nodes(normalize_bgp(g2)), ord.b)

\* C30: the is_isomorphic field of compare_queries(q1, q2) is the value of
\* is_isomorphic(q1, q2), also when the two queries are detected as different
\* languages.
C30_CompareQueriesAgrees ==
  Done =>
    /\ answer.tag = "Ok"
    /\ answer.value = compare_queries(query_one, query_two, ord).is_isomorphic

(***************************************************************************)
(* Witnesses.                                                               *)
(***************************************************************************)
\* The refinement of the first frame leaves blanks of G1 ungrounded, so the
\* matcher has to speculate.
Speculates ==
  LET graph_a == normalize_bgp(g1)
      blank_nodes_a == get_graph_blank_nodes(graph_a)
      ha == hash_terms(uniq_graph(get_quads_with_blank_nodes(graph_a), ord.a),
                       blank_nodes_a, EmptyMap, ord.a)
  IN Cardinality(DOMAIN ha.hashes) < Len(blank_nodes_a)

\* A graph with a repeated triple and a Variable in predicate position was
\* compared with itself.
C4_Witness ==
  /\ Done /\ result /\ g1 = g2
  /\ Len(g1) = 2 /\ g1[1] = g1[2]
  /\ g1[1].predicate.kind = "Variable"

C6_Witness ==
  /\ Done /\ result /\ g1 # g2
  /\ g2 \in VariableRenamings(g1)
  /\ Cardinality(NamesOf(g1, "Variable")) = 2


\* A search that speculated, failed, and returned Ok(false).
C12_Witness ==
  Searched /\ ~result /\ outcome = "Ok" /\ Len(frame[1].children) > 0

\* Two different graphs found isomorphic with several blanks grounded, the maps
\* of the two sides iterating in different orders.
C15_Witness ==
  Searched /\ result /\ g1 # g2 /\ ord.a # ord.b /\ Size(frame[1].hashes_a) >= 2

\* A recursive call that itself made a recursive call.
C18_Witness == Searched /\ Depth(frame[1]) >= 2

\* A refinement that needed three passes.
C19_Witness == Searched /\ \E f \in FramesOf(frame[1]) : f.passes_a >= 3

\* A call of hash_terms that started from a non-empty map and added to it in
\* two different steps.
C21_Witness ==
  Searched /\ \E f \in FramesOf(frame[1]) :
    /\ f.grounded_hashes_a # EmptyMap
    /\ Cardinality({f.history_a[i] : i \in 1..Len(f.history_a)}) >= 3

C25_Witness ==
  Searched /\ frame[1].returned # <<>> /\ frame[1].verified = <<>>
           /\ Cardinality(DOMAIN frame[1].returned[1]) >= 3

\* A frame that made several recursive calls, the first ones returning None and
\* the last one a bijection, with candidate pairs left untried.
C26_Witness ==
  Searched /\ \E f \in Speculating(frame[1]) :
    /\ Len(f.children) >= 3
    /\ f.returned # <<>>
    /\ Len(f.children) < Cardinality(Candidates(f))
====
